---- MODULE Spec2Model ----
(***************************************************************************)
(* A model of qiskit_qec/circuits/surface_code.py: the rotated surface     *)
(* code's plaquette layout (_get_plaquettes, _logicals), the emission of   *)
(* the two logical circuits (__init__, syndrome_measurement, readout) and  *)
(* the decoding of a shot string (string2raw_logicals, _string2changes,    *)
(* string2nodes).                                                          *)
(*                                                                         *)
(* Python strings are sequences of one-character strings, lists are        *)
(* sequences, and every Python index i is the TLA+ index i + 1.            *)
(***************************************************************************)
EXTENDS Integers, Sequences, FiniteSets, TLC

VARIABLES
    d,                \* self.d
    basis,            \* self.basis
    resets,           \* self._resets
    blocks,           \* self.blocks: the constructor's argument T
    T,                \* self.T: the number of rounds emitted so far
    zplaqs,           \* self.zplaqs
    xplaqs,           \* self.xplaqs
    logicals,         \* self._logicals
    seed,             \* <<x, y>>: the loop variables of _get_plaquettes
    zplaq_bits,       \* self.zplaq_bits: one classical register per round
    xplaq_bits,       \* self.xplaq_bits
    circuit,          \* self.circuit: log -> the instructions emitted so far
    calls,            \* the syndrome_measurement calls made so far, as <<T on entry, final>>
    pc,               \* the position of the constructor or of the caller
    string,           \* the shot string handed to the decoder
    origin,           \* how the shot string came about
    logical,          \* string2nodes' argument logical
    all_logicals,     \* string2nodes' argument all_logicals
    raw_logicals,     \* the result of string2raw_logicals
    syndrome_changes, \* the result of _string2changes
    nodes             \* the result of string2nodes

vars == <<d, basis, resets, blocks, T, zplaqs, xplaqs, logicals, seed,
          zplaq_bits, xplaq_bits, circuit, calls, pc, string, origin,
          logical, all_logicals, raw_logicals, syndrome_changes, nodes>>

lattice_vars == <<d, zplaqs, xplaqs, logicals, seed>>
emit_vars == <<zplaq_bits, xplaq_bits, circuit, calls, T>>
decode_vars == <<string, origin, logical, all_logicals, raw_logicals,
                 syndrome_changes, nodes>>

(***************************************************************************)
(* Bounds of the model.                                                    *)
(***************************************************************************)
MaxD == 6        \* the largest distance of the lattice specification
MaxT == 3        \* the largest number of rounds the constructor is asked for
MaxCalls == 4    \* the most syndrome_measurement calls on one object

(***************************************************************************)
(* Python helpers.                                                         *)
(***************************************************************************)
None == -1       \* an absent corner of a plaquette

\* range(n) as a set
Range(n) == 0 .. (n - 1)

\* [f(j) for j in range(n)] is written [j \in 1..n |-> f(j - 1)]

\* list[::-1], string[::-1]
Reverse(s) == [i \in 1 .. Len(s) |-> s[Len(s) + 1 - i]]

\* [q for q in plaq if q != None]
Present(plaq) == SelectSeq(plaq, LAMBDA q : q # None)

(***************************************************************************)
(* _get_plaquettes: the body of the double loop for the seed (x, y), and   *)
(* the loop itself, y outermost, both from -1 to d - 1.                    *)
(***************************************************************************)
Corner(dd, x, y, dx, dy) ==
    IF (x + dx) \in Range(dd) /\ (y + dy) \in Range(dd)
    THEN x + dx + dd * (y + dy)
    ELSE None

\* the list plaq built by the loops over dy and dx
Plaq(dd, x, y) ==
    << Corner(dd, x, y, 0, 0), Corner(dd, x, y, 1, 0),
       Corner(dd, x, y, 0, 1), Corner(dd, x, y, 1, 1) >>

\* the seed test without the guard that keeps the four corner seeds out
IsSeedNoGuard(dd, x, y) ==
    LET bulk == x \in Range(dd - 1) /\ y \in Range(dd - 1)
        ztab == (x = -1 /\ y % 2 = 0) \/ (x = dd - 1 /\ y % 2 = 1)
        xtab == (y = -1 /\ x % 2 = 1) \/ (y = dd - 1 /\ x % 2 = 0)
    IN  bulk \/ ztab \/ xtab

\* if (x in range(d - 1) or y in range(d - 1)) and (bulk or ztab or xtab)
IsSeed(dd, x, y) ==
    LET bulk == x \in Range(dd - 1) /\ y \in Range(dd - 1)
        ztab == (x = -1 /\ y % 2 = 0) \/ (x = dd - 1 /\ y % 2 = 1)
        xtab == (y = -1 /\ x % 2 = 1) \/ (y = dd - 1 /\ x % 2 = 0)
    IN  (x \in Range(dd - 1) \/ y \in Range(dd - 1)) /\ (bulk \/ ztab \/ xtab)

\* the two types exchanged: odd x + y goes to xplaqs
IsXTypeSwapped(x, y) == (x + y) % 2 = 1

\* the plaquette goes to xplaqs or to zplaqs by the parity of x + y
IsXType(x, y) == (x + y) % 2 = 0

\* one iteration of the loop body: acc = <<zplaqs, xplaqs>>
PlaqStep(dd, x, y, acc) ==
    IF ~IsSeed(dd, x, y) THEN acc
    ELSE LET plaq == Plaq(dd, x, y)
         IN  IF IsXType(x, y)
             THEN << acc[1], Append(acc[2], << plaq[1], plaq[2], plaq[3], plaq[4] >>) >>
             ELSE << Append(acc[1], << plaq[1], plaq[3], plaq[2], plaq[4] >>), acc[2] >>

\* the seed after (x, y) in loop order; <<-1, d>> when the loops are over
NextSeed(dd, s) == IF s[1] < dd - 1 THEN << s[1] + 1, s[2] >> ELSE << -1, s[2] + 1 >>

RECURSIVE PlaqLoop(_, _, _)
PlaqLoop(dd, s, acc) ==
    IF s[2] > dd - 1 THEN acc
    ELSE PlaqLoop(dd, NextSeed(dd, s), PlaqStep(dd, s[1], s[2], acc))

\* returns <<zplaqs, xplaqs>>
get_plaquettes(dd) == PlaqLoop(dd, << -1, -1 >>, << <<>>, <<>> >>)

(***************************************************************************)
(* self._logicals: the two X supports (left and right columns) and the two *)
(* Z supports (top and bottom rows).                                       *)
(***************************************************************************)
LogicalX0(dd) == [j \in 1 .. dd |-> (j - 1) * dd]
LogicalX1(dd) == [j \in 1 .. dd |-> ((j - 1) + 1) * dd - 1]
LogicalZ0(dd) == [j \in 1 .. dd |-> j - 1]
LogicalZ1(dd) == [j \in 1 .. dd |-> dd * dd - 1 - (j - 1)]

Logicals(dd) ==
    [x |-> << LogicalX0(dd), LogicalX1(dd) >>,
     z |-> << LogicalZ0(dd), LogicalZ1(dd) >>]

\* self._logicals[b]
LogicalsOf(l, b) == IF b = "x" THEN l.x ELSE l.z

(***************************************************************************)
(* Python strings and lists.                                               *)
(***************************************************************************)
\* int(c) for a character of a bit string
IntOf(c) == IF c = "1" THEN 1 ELSE 0

\* str(n) for n in {0, 1}
StrOf(n) == IF n = 1 THEN "1" ELSE "0"

\* "0" * (not change) + "1" * change
BoolChar(change) == IF change THEN "1" ELSE "0"

\* list[i] for a Python index i, negative indices counting from the end
PyAt(list, i) == IF i < 0 THEN list[Len(list) + i + 1] ELSE list[i + 1]

\* s[0:-1]
DropLast(s) == SubSeq(s, 1, Len(s) - 1)

\* list[1:-1]
Trim(list) == SubSeq(list, 2, Len(list) - 1)

\* list[start::2] for a Python index start
Stride2(list, start) ==
    [k \in 1 .. ((Len(list) - start + 1) \div 2) |-> list[start + 1 + 2 * (k - 1)]]

\* whether sep occurs in s at TLA+ index i
SepAt(s, sep, i) ==
    /\ i + Len(sep) - 1 <= Len(s)
    /\ \A k \in 1 .. Len(sep) : s[i + k - 1] = sep[k]

\* s.split(sep): the field from index i to the first occurrence of sep at
\* or after i, then the fields after that occurrence; hits holds the
\* occurrences of sep at or after i
RECURSIVE SplitFrom(_, _, _, _)
SplitFrom(s, sep, i, hits) ==
    IF hits = {} THEN << SubSeq(s, i, Len(s)) >>
    ELSE LET j == CHOOSE h \in hits : \A k \in hits : h <= k
         IN  << SubSeq(s, i, j - 1) >>
                \o SplitFrom(s, sep, j + Len(sep), {h \in hits : h >= j + Len(sep)})

Split(s, sep) == SplitFrom(s, sep, 1, {j \in 1 .. Len(s) : SepAt(s, sep, j)})

\* sep.join(list)
RECURSIVE Join(_, _)
Join(sep, list) ==
    IF Len(list) = 0 THEN <<>>
    ELSE IF Len(list) = 1 THEN list[1]
         ELSE list[1] \o sep \o Join(sep, Tail(list))

\* the sum of a sequence of numbers
RECURSIVE Sum(_)
Sum(ns) == IF Len(ns) = 0 THEN 0 ELSE ns[1] + Sum(Tail(ns))

(***************************************************************************)
(* The object, as the decoder reads it.                                    *)
(***************************************************************************)
Self ==
    [d |-> d, T |-> T, basis |-> basis, resets |-> resets,
     zplaqs |-> zplaqs, xplaqs |-> xplaqs, logicals |-> logicals]

\* self.css_x_stabilizer_ops and self.css_z_stabilizer_ops
css_x_stabilizer_ops(self) == [p \in 1 .. Len(self.xplaqs) |-> Present(self.xplaqs[p])]
css_z_stabilizer_ops(self) == [p \in 1 .. Len(self.zplaqs) |-> Present(self.zplaqs[p])]

(***************************************************************************)
(* _string2changes.                                                        *)
(***************************************************************************)
\* string.split(" ")[0][::-1]
FinalReadout(str) == Reverse(Split(str, <<" ">>)[1])

\* the plaquettes of the basis other than self.basis
PlaqsOfOpposite(self) == IF self.basis = "z" THEN self.xplaqs ELSE self.zplaqs

\* the plaquettes whose syndrome is read: those of the preparation basis
PlaqsOf(self) == IF self.basis = "z" THEN self.zplaqs ELSE self.xplaqs

\* the parity of the readout over the present qubits of plaq
PlaqParity(final_readout, plaq) ==
    Sum([k \in 1 .. Len(plaq) |->
            IF plaq[k] # None THEN IntOf(final_readout[plaq[k] + 1]) ELSE 0]) % 2

\* each plaquette's bit is put in front of the ones before it
FinalSyndrome(self, final_readout) ==
    LET plaqs == PlaqsOf(self)
    IN  [k \in 1 .. Len(plaqs) |->
            StrOf(PlaqParity(final_readout, plaqs[Len(plaqs) + 1 - k]))]

\* the two strides exchanged: [1::2] for z, [2::2] for x
BasisFieldsSwapped(self, str) ==
    IF self.basis = "z" THEN Stride2(Split(str, <<" ">>), 1)
                        ELSE Stride2(Split(str, <<" ">>), 2)

\* the ancilla fields of the preparation basis: [2::2] for z, [1::2] for x
BasisFields(self, str) ==
    IF self.basis = "z" THEN Stride2(Split(str, <<" ">>), 2)
                        ELSE Stride2(Split(str, <<" ">>), 1)

\* (a name bound over a one-element set is evaluated once)
FullSyndrome(self, str) ==
    CHOOSE full_syndrome \in
        { FinalSyndrome(self, final_readout) \o <<" ">> \o Join(<<" ">>, BasisFields(self, str))
            : final_readout \in { FinalReadout(str) } } : TRUE

\* change for round t and column j (Python indices) when self._resets
ChangeResets(syndrome_list, t, j) ==
    IF t = 0
    THEN PyAt(PyAt(syndrome_list, -1), j) # "0"
    ELSE PyAt(PyAt(syndrome_list, -t), j) # PyAt(PyAt(syndrome_list, -t - 1), j)

\* last3.count("1") % 2 == 1
Last3Odd(syndrome_list, t, j) ==
    Sum([dt \in 1 .. 3 |-> IntOf(PyAt(PyAt(syndrome_list, -t - 1 + (dt - 1)), j))]) % 2 = 1

\* the rounds between the first two and the last compared one round apart
ChangeNoResetsOneApart(self, syndrome_list, t, j) ==
    IF t <= 1
    THEN IF t # self.T
         THEN PyAt(PyAt(syndrome_list, -t - 1), j) # "0"
         ELSE PyAt(PyAt(syndrome_list, -t - 1), j) # PyAt(PyAt(syndrome_list, -t), j)
    ELSE IF t = self.T
         THEN Last3Odd(syndrome_list, t, j)
         ELSE PyAt(PyAt(syndrome_list, -t - 1), j) # PyAt(PyAt(syndrome_list, -t), j)

\* change for round t and column j when not self._resets
ChangeNoResets(self, syndrome_list, t, j) ==
    IF t <= 1
    THEN IF t # self.T
         THEN PyAt(PyAt(syndrome_list, -t - 1), j) # "0"
         ELSE PyAt(PyAt(syndrome_list, -t - 1), j) # PyAt(PyAt(syndrome_list, -t), j)
    ELSE IF t = self.T
         THEN Last3Odd(syndrome_list, t, j)
         ELSE PyAt(PyAt(syndrome_list, -t - 1), j) # PyAt(PyAt(syndrome_list, -t + 1), j)

Change(self, syndrome_list, t, j) ==
    IF self.resets THEN ChangeResets(syndrome_list, t, j)
                   ELSE ChangeNoResets(self, syndrome_list, t, j)

\* the characters the loop over j adds for round t, and the " " after them
ChangeRow(self, syndrome_list, t) ==
    [j \in 1 .. Len(syndrome_list[1]) |-> BoolChar(Change(self, syndrome_list, t, j - 1))]
        \o <<" ">>

RECURSIVE ChangeRows(_, _, _)
ChangeRows(self, syndrome_list, t) ==
    IF t >= Len(syndrome_list) THEN <<>>
    ELSE ChangeRow(self, syndrome_list, t) \o ChangeRows(self, syndrome_list, t + 1)

\* the first and the last round trimmed whatever the basis
TrimRoundsAlways(self, local_basis, changes) ==
    Join(<<" ">>, Trim(Split(changes, <<" ">>)))

\* the local variable basis is self.basis, so the rounds are never trimmed
TrimRounds(self, local_basis, changes) ==
    IF local_basis # self.basis
    THEN Join(<<" ">>, Trim(Split(changes, <<" ">>)))
    ELSE changes

string2changes(self, str) ==
    CHOOSE changes \in
        { TrimRounds(self, self.basis, DropLast(ChangeRows(self, syndrome_list, 0)))
            : syndrome_list \in { Split(FullSyndrome(self, str), <<" ">>) } } : TRUE

(***************************************************************************)
(* string2raw_logicals.                                                    *)
(***************************************************************************)
\* the qubit added to Z[k] in iteration j of the loop
RawQubit(self, k, j) ==
    IF self.basis = "z"
    THEN IF k = 0 THEN j ELSE self.d * self.d - 1 - j
    ELSE IF k = 0 THEN j * self.d ELSE (j + 1) * self.d - 1

RawValue(self, final_readout, k) ==
    Sum([j \in 1 .. self.d |-> IntOf(final_readout[RawQubit(self, k, j - 1) + 1])]) % 2

string2raw_logicals(self, str) ==
    CHOOSE measured_Z \in
        { << StrOf(RawValue(self, final_readout, 0)), " ", StrOf(RawValue(self, final_readout, 1)) >>
            : final_readout \in { FinalReadout(str) } } : TRUE

(***************************************************************************)
(* _process_string, _separate_string, string2nodes.                        *)
(***************************************************************************)
process_string(self, str) ==
    string2raw_logicals(self, str) \o <<" ", " ">> \o string2changes(self, str)

separate_string(str) ==
    LET parts == Split(str, <<" ", " ">>)
    IN  [k \in 1 .. Len(parts) |-> Split(parts[k], <<" ">>)]

\* the support taken at bqec_index, not at -bqec_index - 1
BoundaryNodeForward(self, bqec_index) ==
    [time |-> 0,
     qubits |-> PyAt(LogicalsOf(self.logicals, self.basis), bqec_index),
     is_boundary |-> TRUE,
     element |-> bqec_index]

\* the boundary node of position bqec_index in boundary[::-1]
BoundaryNode(self, bqec_index) ==
    [time |-> 0,
     qubits |-> PyAt(LogicalsOf(self.logicals, self.basis), -bqec_index - 1),
     is_boundary |-> TRUE,
     element |-> bqec_index]

BoundaryNodes(self, boundary, log, all) ==
    LET rev == Reverse(boundary)
        idx == SelectSeq([k \in 1 .. Len(rev) |-> k - 1],
                         LAMBDA k : all \/ rev[k + 1] # log)
    IN  [n \in 1 .. Len(idx) |-> BoundaryNode(self, idx[n])]

\* the stabilizer's qubits, by the preparation basis
NodeQubits(self, qec_index) ==
    IF self.basis = "x" THEN css_x_stabilizer_ops(self)[qec_index + 1]
                        ELSE css_z_stabilizer_ops(self)[qec_index + 1]

BulkNode(self, syn_round, qec_index) ==
    [time |-> syn_round,
     qubits |-> NodeQubits(self, qec_index),
     is_boundary |-> FALSE,
     element |-> qec_index]

\* the round string read without [::-1]
RoundNodesForward(self, syn_round, elements) ==
    LET idx == SelectSeq([k \in 1 .. Len(elements) |-> k - 1],
                         LAMBDA k : elements[k + 1] = "1")
    IN  [n \in 1 .. Len(idx) |-> BulkNode(self, syn_round, idx[n])]

\* the nodes of one round string, in the order of elements[::-1]
RoundNodes(self, syn_round, elements) ==
    LET rev == Reverse(elements)
        idx == SelectSeq([k \in 1 .. Len(rev) |-> k - 1], LAMBDA k : rev[k + 1] = "1")
    IN  [n \in 1 .. Len(idx) |-> BulkNode(self, syn_round, idx[n])]

RECURSIVE TypeNodes(_, _, _)
TypeNodes(self, rounds, syn_round) ==
    IF syn_round >= Len(rounds) THEN <<>>
    ELSE RoundNodes(self, syn_round, rounds[syn_round + 1])
            \o TypeNodes(self, rounds, syn_round + 1)

RECURSIVE BulkNodes(_, _, _)
BulkNodes(self, separated_string, syn_type) ==
    IF syn_type >= Len(separated_string) THEN <<>>
    ELSE TypeNodes(self, separated_string[syn_type + 1], 0)
            \o BulkNodes(self, separated_string, syn_type + 1)

string2nodes(self, str, log, all) ==
    CHOOSE result \in
        { BoundaryNodes(self, separated_string[1], <<log>>, all)
              \o BulkNodes(self, separated_string, 1)
            : separated_string \in { separate_string(process_string(self, str)) } } : TRUE

(***************************************************************************)
(* The circuits.  An instruction is [op, q, c]: the gate's name, its       *)
(* qubits and its classical bits.  A qubit or bit is [reg, idx]; idx = -1  *)
(* stands for the whole register (the call is given the register).  A      *)
(* classical register is [size, round, kind], for the name                 *)
(* "round_<round>_<kind>"; code_bit has round -1.                          *)
(***************************************************************************)
Logs == << "0", "1" >>

\* self._num_xy = int((d**2 - 1) / 2)
num_xy(dd) == (dd * dd - 1) \div 2

WholeRegister == -1

Qubit(reg, idx) == [reg |-> reg, idx |-> idx]
Clbit(reg, idx) == [reg |-> reg, idx |-> idx]
ClassicalRegister(size, round, kind) == [size |-> size, round |-> round, kind |-> kind]
code_bit(dd) == ClassicalRegister(dd * dd, -1, "code_bit")

Gate(op, qs) == [op |-> op, q |-> qs, c |-> <<>>]
Measure(qubit, clbit) == [op |-> "measure", q |-> << qubit >>, c |-> << clbit >>]
AddRegister(reg) == [op |-> "add_register", q |-> <<>>, c |-> << Clbit(reg, WholeRegister) >>]

\* the concatenation of a sequence of sequences
RECURSIVE Concat(_)
Concat(ss) == IF Len(ss) = 0 THEN <<>> ELSE ss[1] \o Concat(Tail(ss))

\* x(): the code qubits a logical X flips, code_qubit[j * d]
XFlipQubits(dd) == [j \in 1 .. dd |-> (j - 1) * dd]

\* z(): the code qubits a logical Z flips, code_qubit[j]
ZFlipQubits(dd) == [j \in 1 .. dd |-> j - 1]

\* _preparation: what it appends to the circuit of log
PreparationOps(self, log) ==
    IF self.basis = "z"
    THEN IF log = "1"
         THEN [j \in 1 .. self.d |-> Gate("x", << Qubit("code_qubit", XFlipQubits(self.d)[j]) >>)]
         ELSE <<>>
    ELSE << Gate("h", << Qubit("code_qubit", WholeRegister) >>) >>
         \o (IF log = "1"
             THEN [j \in 1 .. self.d |-> Gate("z", << Qubit("code_qubit", ZFlipQubits(self.d)[j]) >>)]
             ELSE <<>>)

\* the entangling gates of corner j: the Z plaquettes, then the X plaquettes
CornerOps(self, j) ==
    LET zs == SelectSeq([p \in 1 .. Len(self.zplaqs) |-> p - 1],
                        LAMBDA p : self.zplaqs[p + 1][j + 1] # None)
        xs == SelectSeq([p \in 1 .. Len(self.xplaqs) |-> p - 1],
                        LAMBDA p : self.xplaqs[p + 1][j + 1] # None)
    IN  [n \in 1 .. Len(zs) |->
            Gate("cx", << Qubit("code_qubit", self.zplaqs[zs[n] + 1][j + 1]),
                          Qubit("zplaq_qubit", zs[n]) >>)]
        \o [n \in 1 .. Len(xs) |->
            Gate("cx", << Qubit("xplaq_qubit", xs[n]),
                          Qubit("code_qubit", self.xplaqs[xs[n] + 1][j + 1]) >>)]

\* the ancillas reset in the final round too
AncillaOpsAlwaysReset(self, xbits, zbits, j, final) ==
    << Measure(Qubit("xplaq_qubit", j), Clbit(PyAt(xbits, self.T), j)),
       Measure(Qubit("zplaq_qubit", j), Clbit(PyAt(zbits, self.T), j)) >>
    \o (IF self.resets
        THEN << Gate("reset", << Qubit("xplaq_qubit", j) >>),
                Gate("reset", << Qubit("zplaq_qubit", j) >>) >>
        ELSE <<>>)

\* the measurements of ancilla j into entry self.T of the two registries,
\* and its resets
AncillaOps(self, xbits, zbits, j, final) ==
    << Measure(Qubit("xplaq_qubit", j), Clbit(PyAt(xbits, self.T), j)),
       Measure(Qubit("zplaq_qubit", j), Clbit(PyAt(zbits, self.T), j)) >>
    \o (IF self.resets /\ ~final
        THEN << Gate("reset", << Qubit("xplaq_qubit", j) >>),
                Gate("reset", << Qubit("zplaq_qubit", j) >>) >>
        ELSE <<>>)

\* what one round appends to each circuit, the registries being already
\* extended to zbits and xbits
RoundOps(self, xbits, zbits, final, barrier) ==
    << AddRegister(zbits[Len(zbits)]), AddRegister(xbits[Len(xbits)]),
       Gate("h", << Qubit("xplaq_qubit", WholeRegister) >>) >>
    \o Concat([j \in 1 .. 4 |-> CornerOps(self, j - 1)])
    \o << Gate("h", << Qubit("xplaq_qubit", WholeRegister) >>) >>
    \o Concat([j \in 1 .. num_xy(self.d) |-> AncillaOps(self, xbits, zbits, j - 1, final)])
    \o (IF barrier THEN << Gate("barrier", <<>>) >> ELSE <<>>)

\* the register syndrome_measurement allocates for this round
RoundRegister(self, kind) == ClassicalRegister(num_xy(self.d), self.T, kind)

\* self.T left as it is
NextTStuck(t) == t

\* self.T += 1
NextT(t) == t + 1

\* readout: what it appends to each circuit
ReadoutOps(self) ==
    (IF self.basis = "x" THEN << Gate("h", << Qubit("code_qubit", WholeRegister) >>) >>
                         ELSE <<>>)
    \o << AddRegister(code_bit(self.d)),
          Measure(Qubit("code_qubit", WholeRegister), Clbit(code_bit(self.d), WholeRegister)) >>

\* the emitter's state: the registries, the circuits, T and the call history
Emitter == [zplaq_bits |-> zplaq_bits, xplaq_bits |-> xplaq_bits,
            circuit |-> circuit, T |-> T, calls |-> calls]

\* syndrome_measurement(final, barrier) on the object self with emitter e
syndrome_measurement(self, e, final, barrier) ==
    LET zbits == Append(e.zplaq_bits, RoundRegister(self, "zplaq_bit"))
        xbits == Append(e.xplaq_bits, RoundRegister(self, "xplaq_bit"))
        ops == RoundOps(self, xbits, zbits, final, barrier)
    IN  [zplaq_bits |-> zbits,
         xplaq_bits |-> xbits,
         circuit |-> [log \in {"0", "1"} |-> e.circuit[log] \o ops],
         T |-> NextT(self.T),
         calls |-> Append(e.calls, [T |-> self.T, final |-> final, barrier |-> barrier])]

readout(self, e) ==
    [e EXCEPT !.circuit = [log \in {"0", "1"} |-> e.circuit[log] \o ReadoutOps(self)]]

preparation(self, e) ==
    [e EXCEPT !.circuit = [log \in {"0", "1"} |-> e.circuit[log] \o PreparationOps(self, log)]]

\* the object after lines 55-100 of __init__
NewObject(dd, bb, rr) ==
    [d |-> dd, T |-> 0, basis |-> bb, resets |-> rr,
     zplaqs |-> get_plaquettes(dd)[1], xplaqs |-> get_plaquettes(dd)[2],
     logicals |-> Logicals(dd)]

NewEmitter ==
    [zplaq_bits |-> <<>>, xplaq_bits |-> <<>>,
     circuit |-> [log \in {"0", "1"} |-> <<>>], T |-> 0, calls |-> <<>>]

\* for _ in range(n): self.syndrome_measurement()
RECURSIVE Rounds(_, _, _)
Rounds(self, e, n) ==
    IF n <= 0 THEN e
    ELSE Rounds([self EXCEPT !.T = NextT(self.T)],
                syndrome_measurement(self, e, FALSE, FALSE), n - 1)

\* the emitter __init__(d, T, basis, resets) leaves
Constructed(dd, tt, bb, rr) ==
    LET self == NewObject(dd, bb, rr)
        e1 == Rounds(self, preparation(self, NewEmitter), tt - 1)
    IN  IF tt # 0
        THEN readout(self, syndrome_measurement([self EXCEPT !.T = e1.T], e1, TRUE, FALSE))
        ELSE e1

(***************************************************************************)
(* The state machines.                                                     *)
(***************************************************************************)
Bases == {"x", "z"}

\* the distances the circuits are built for: _num_xy ancillas of each type
\* exist only when d is odd
EmitDistances == {1, 3}

\* the distances shot strings are decoded for
DecodeDistances == {3}

SetObject(o) ==
    /\ d = o.d
    /\ basis = o.basis
    /\ resets = o.resets
    /\ zplaqs = o.zplaqs
    /\ xplaqs = o.xplaqs
    /\ logicals = o.logicals

SetEmitter(e) ==
    /\ zplaq_bits = e.zplaq_bits
    /\ xplaq_bits = e.xplaq_bits
    /\ circuit = e.circuit
    /\ T = e.T
    /\ calls = e.calls

NoShot ==
    /\ string = <<>>
    /\ origin = [kind |-> "none", log |-> "0", subset |-> {}, flip |-> <<>>]
    /\ logical = "0"
    /\ all_logicals = FALSE
    /\ raw_logicals = <<>>
    /\ syndrome_changes = <<>>
    /\ nodes = <<>>

object_vars == <<d, basis, resets, blocks, zplaqs, xplaqs, logicals, seed>>

(***************************************************************************)
(* Spec: the constructor, from its call of _preparation on, and the        *)
(* caller's further syndrome_measurement calls.                            *)
(***************************************************************************)
Init ==
    /\ \E dd \in EmitDistances, bb \in Bases, rr \in BOOLEAN :
          /\ SetObject(NewObject(dd, bb, rr))
          /\ seed = << -1, dd >>
    /\ blocks \in 0 .. MaxT
    /\ SetEmitter(NewEmitter)
    /\ pc = "preparation"
    /\ NoShot

Emit(e) ==
    /\ zplaq_bits' = e.zplaq_bits
    /\ xplaq_bits' = e.xplaq_bits
    /\ circuit' = e.circuit
    /\ T' = e.T
    /\ calls' = e.calls

\* self._preparation()
Preparation ==
    /\ pc = "preparation"
    /\ Emit(preparation(Self, Emitter))
    /\ pc' = "rounds"
    /\ UNCHANGED <<object_vars, decode_vars>>

\* for _ in range(T - 1): self.syndrome_measurement()
ConstructorRound ==
    /\ pc = "rounds"
    /\ Len(calls) < blocks - 1
    /\ Emit(syndrome_measurement(Self, Emitter, FALSE, FALSE))
    /\ pc' = "rounds"
    /\ UNCHANGED <<object_vars, decode_vars>>

\* if T != 0: self.syndrome_measurement(final=True)
ConstructorFinalRound ==
    /\ pc = "rounds"
    /\ ~(Len(calls) < blocks - 1)
    /\ blocks # 0
    /\ Emit(syndrome_measurement(Self, Emitter, TRUE, FALSE))
    /\ pc' = "readout"
    /\ UNCHANGED <<object_vars, decode_vars>>

\* self.readout(), the constructor's last statement
ConstructorReadout ==
    /\ pc = "readout"
    /\ Emit(readout(Self, Emitter))
    /\ pc' = "constructed"
    /\ UNCHANGED <<object_vars, decode_vars>>

\* T = 0: the constructor returns after _preparation
ConstructorReturn ==
    /\ pc = "rounds"
    /\ ~(Len(calls) < blocks - 1)
    /\ blocks = 0
    /\ pc' = "constructed"
    /\ UNCHANGED <<object_vars, emit_vars, decode_vars>>

\* a caller's syndrome_measurement(final, barrier) on the constructed object
SyndromeMeasurement(final, barrier) ==
    /\ pc \in {"constructed", "in_use"}
    /\ Len(calls) < MaxCalls
    /\ Emit(syndrome_measurement(Self, Emitter, final, barrier))
    /\ pc' = "in_use"
    /\ UNCHANGED <<object_vars, decode_vars>>

Next ==
    \/ Preparation
    \/ ConstructorRound
    \/ ConstructorFinalRound
    \/ ConstructorReadout
    \/ ConstructorReturn
    \/ \E final \in BOOLEAN, barrier \in BOOLEAN : SyndromeMeasurement(final, barrier)

Spec == Init /\ [][Next]_vars

(***************************************************************************)
(* SpecLattice: _get_plaquettes, one loop iteration at a time, and the     *)
(* logical supports, for every distance up to MaxD.                        *)
(***************************************************************************)
InitLattice ==
    /\ d \in 1 .. MaxD
    /\ basis = "z"
    /\ resets = TRUE
    /\ blocks = 0
    /\ zplaqs = <<>>
    /\ xplaqs = <<>>
    /\ logicals = [x |-> <<>>, z |-> <<>>]
    /\ seed = << -1, -1 >>
    /\ SetEmitter(NewEmitter)
    /\ pc = "plaquettes"
    /\ NoShot

\* one iteration of the loops over y and x
PlaquetteStep ==
    /\ pc = "plaquettes"
    /\ seed[2] <= d - 1
    /\ LET acc == PlaqStep(d, seed[1], seed[2], << zplaqs, xplaqs >>)
       IN  /\ zplaqs' = acc[1]
           /\ xplaqs' = acc[2]
    /\ seed' = NextSeed(d, seed)
    /\ UNCHANGED <<d, basis, resets, blocks, logicals, pc, emit_vars, decode_vars>>

\* return zplaqs, xplaqs
PlaquettesReturn ==
    /\ pc = "plaquettes"
    /\ seed[2] > d - 1
    /\ pc' = "logicals"
    /\ UNCHANGED <<object_vars, emit_vars, decode_vars>>

\* self._logicals = ...
SetLogicals ==
    /\ pc = "logicals"
    /\ logicals' = Logicals(d)
    /\ pc' = "built"
    /\ UNCHANGED <<d, basis, resets, blocks, zplaqs, xplaqs, seed, emit_vars, decode_vars>>

NextLattice == PlaquetteStep \/ PlaquettesReturn \/ SetLogicals

SpecLattice == InitLattice /\ [][NextLattice]_vars

(***************************************************************************)
(* Shot strings.  The string of a shot is its fields joined by " ": the    *)
(* code_bit readout first, then for each round from the last to the first  *)
(* its xplaq_bit field and its zplaq_bit field (the registers in the       *)
(* reverse of the order add_register received them), every field with bit  *)
(* 0 of its register rightmost.                                            *)
(***************************************************************************)
Zeros(n) == [k \in 1 .. n |-> "0"]
Ones(n) == [k \in 1 .. n |-> "1"]
Unit(n, i) == [k \in 1 .. n |-> IF k = i THEN "1" ELSE "0"]

\* the ancilla fields drawn for a noisy shot: at most one 1
FieldPatterns(n) == {Zeros(n)} \cup {Unit(n, i) : i \in 1 .. n}

\* the ancilla fields drawn for the basis the decoder does not read
OtherPatterns(n) == {Zeros(n), Ones(n)}

Elements(seq) == {seq[k] : k \in 1 .. Len(seq)}

\* the plaquettes of the basis other than the preparation basis
OppositePlaqs(self) == IF self.basis = "z" THEN self.xplaqs ELSE self.zplaqs

\* the code qubits _preparation flips in the circuit of "1"
PreparedFlips(self) ==
    IF self.basis = "z" THEN Elements(XFlipQubits(self.d)) ELSE Elements(ZFlipQubits(self.d))

\* the readout of qubit q in a noiseless shot of the circuit of v: the
\* prepared bit, flipped once for each plaquette of subset that holds q
NoiselessBit(self, v, subset, q) ==
    ((IF v = "1" /\ q \in PreparedFlips(self) THEN 1 ELSE 0)
        + Cardinality({p \in subset : q \in Elements(Present(OppositePlaqs(self)[p]))})) % 2

\* the readout field of the bits b[q + 1] of the qubits q
ReadoutField(b) == Reverse([k \in 1 .. Len(b) |-> StrOf(b[k])])

\* the string of the readout and of the fields own[r + 1], other[r + 1] that
\* round r wrote for the preparation basis and for the other basis
ShotString(self, readout_field, own, other) ==
    Join(<<" ">>,
         << readout_field >>
         \o Concat([k \in 1 .. self.T |->
                LET r == self.T - k
                IN  IF self.basis = "x" THEN << own[r + 1], other[r + 1] >>
                                        ELSE << other[r + 1], own[r + 1] >>]))

NoiselessString(self, v, subset, other) ==
    ShotString(self,
               ReadoutField([k \in 1 .. self.d * self.d |-> NoiselessBit(self, v, subset, k - 1)]),
               [r \in 1 .. self.T |-> Zeros(num_xy(self.d))],
               [r \in 1 .. self.T |-> other])

\* the Python index of the field that holds character pos of str
FieldOf(str, pos) == Cardinality({k \in 1 .. pos : str[k] = " "})

\* whether field f holds the ancilla bits of the preparation basis
IsOwnField(self, f) == f >= 1 /\ (IF self.basis = "x" THEN f % 2 = 1 ELSE f % 2 = 0)

(***************************************************************************)
(* SpecDecode: a constructed object of T >= 1 rounds, a noiseless shot of  *)
(* it, with one bit flipped or none, and one call of the decoder on it.    *)
(***************************************************************************)
InitDecode ==
    /\ \E dd \in DecodeDistances, tt \in 1 .. MaxT, bb \in Bases, rr \in BOOLEAN :
          /\ SetObject(NewObject(dd, bb, rr))
          /\ seed = << -1, dd >>
          /\ blocks = tt
          /\ SetEmitter(Constructed(dd, tt, bb, rr))
    /\ pc = "constructed"
    /\ NoShot

\* a noiseless shot of the circuit of v
Simulate(v, subset, other) ==
    /\ pc = "constructed"
    /\ string' = NoiselessString(Self, v, subset, other)
    /\ origin' = [kind |-> "noiseless", log |-> v, subset |-> subset, flip |-> <<>>]
    /\ pc' = "shot"
    /\ UNCHANGED <<object_vars, emit_vars, logical, all_logicals,
                   raw_logicals, syndrome_changes, nodes>>

\* a shot with the ancilla fields own of the preparation basis, and code
\* qubit q, if any, read as 1
SimulateNoisy(own, q) ==
    /\ pc = "constructed"
    /\ string' = ShotString(Self,
                            ReadoutField([k \in 1 .. d * d |-> IF k - 1 = q THEN 1 ELSE 0]),
                            own,
                            [r \in 1 .. T |-> Zeros(num_xy(d))])
    /\ origin' = [kind |-> "noisy", log |-> "0", subset |-> {}, flip |-> <<>>]
    /\ pc' = "shot"
    /\ UNCHANGED <<object_vars, emit_vars, logical, all_logicals,
                   raw_logicals, syndrome_changes, nodes>>

\* one bit of a noiseless shot is flipped
FlipBit(pos) ==
    /\ pc = "shot"
    /\ origin.kind = "noiseless"
    /\ origin.flip = <<>>
    /\ string[pos] # " "
    /\ string' = [string EXCEPT ![pos] = IF @ = "0" THEN "1" ELSE "0"]
    /\ origin' = [origin EXCEPT !.flip = << FieldOf(string, pos) >>]
    /\ UNCHANGED <<object_vars, emit_vars, pc, logical, all_logicals,
                   raw_logicals, syndrome_changes, nodes>>

String2RawLogicals ==
    /\ pc = "shot"
    /\ raw_logicals' = string2raw_logicals(Self, string)
    /\ pc' = "raw"
    /\ UNCHANGED <<object_vars, emit_vars, string, origin, logical, all_logicals,
                   syndrome_changes, nodes>>

String2Changes ==
    /\ pc = "shot"
    /\ syndrome_changes' = string2changes(Self, string)
    /\ pc' = "changes"
    /\ UNCHANGED <<object_vars, emit_vars, string, origin, logical, all_logicals,
                   raw_logicals, nodes>>

String2Nodes(log, all) ==
    /\ pc = "shot"
    /\ logical' = log
    /\ all_logicals' = all
    /\ nodes' = string2nodes(Self, string, log, all)
    /\ pc' = "nodes"
    /\ UNCHANGED <<object_vars, emit_vars, string, origin, raw_logicals, syndrome_changes>>

\* the quantifiers are entered only where the action is enabled
NextDecode ==
    \/ /\ pc = "constructed"
       /\ \E v \in {"0", "1"}, subset \in SUBSET (1 .. Len(OppositePlaqs(Self))),
             other \in OtherPatterns(num_xy(d)) : Simulate(v, subset, other)
    \/ /\ pc = "shot"
       /\ \E pos \in 1 .. Len(string) : FlipBit(pos)
    \/ String2RawLogicals
    \/ String2Changes
    \/ \E log \in {"0", "1"}, all \in BOOLEAN : String2Nodes(log, all)

SpecDecode == InitDecode /\ [][NextDecode]_vars

(***************************************************************************)
(* SpecNoisy: the same object and decoder calls, on shots whose ancilla    *)
(* fields of the preparation basis are drawn freely.                       *)
(***************************************************************************)
NextNoisy ==
    \/ /\ pc = "constructed"
       /\ \E own \in [1 .. T -> FieldPatterns(num_xy(d))], q \in -1 .. (d * d - 1) :
             SimulateNoisy(own, q)
    \/ String2RawLogicals
    \/ String2Changes
    \/ \E log \in {"0", "1"}, all \in BOOLEAN : String2Nodes(log, all)

SpecNoisy == InitDecode /\ [][NextNoisy]_vars

(***************************************************************************)
(* The properties.                                                         *)
(***************************************************************************)
IsBulk(node) == ~node.is_boundary
IsBoundaryNode(node) == node.is_boundary

\* the number of bulk nodes string2nodes returned
BulkCount == Len(SelectSeq(nodes, IsBulk))

\* the shot is a noiseless shot of the circuit of origin.log, as simulated
Noiseless == origin.kind = "noiseless" /\ origin.flip = <<>>

\* the number of qubits a plaquette shares with a logical support
Overlap(plaq, support) == Cardinality(Elements(Present(plaq)) \cap Elements(support))

(* C1: a noiseless shot of the logical-v circuit decodes to the raw         *)
(* logicals "v v" and to no bulk node; with logical = v string2nodes        *)
(* returns no node at all, with logical # v it returns boundary nodes only. *)
C1_NoiselessRoundTrip ==
    Noiseless =>
        /\ pc = "raw" => raw_logicals = << origin.log, " ", origin.log >>
        /\ pc = "nodes" => BulkCount = 0
        /\ (pc = "nodes" /\ ~all_logicals /\ logical = origin.log) => nodes = <<>>
        /\ (pc = "nodes" /\ ~all_logicals /\ logical # origin.log) =>
                /\ nodes # <<>>
                /\ \A k \in 1 .. Len(nodes) : nodes[k].is_boundary

C1_Witness ==
    /\ Noiseless
    /\ pc = "nodes"
    /\ origin.log = "1"
    /\ logical = "0"
    /\ ~all_logicals
    /\ origin.subset # {}
    /\ ~resets
    /\ basis = "x"
    /\ T >= 2
    /\ Len(nodes) = 2

(* C2: the lists _get_plaquettes returns hold d * d - 1 plaquettes in all,  *)
(* for every d >= 1, even or odd.                                          *)
C2_PlaquetteCount ==
    pc \in {"logicals", "built"} => Len(xplaqs) + Len(zplaqs) = d * d - 1

C2_Witness ==
    /\ pc = "built"
    /\ d % 2 = 0
    /\ d >= 4
    /\ Len(zplaqs) # Len(xplaqs)

\* each of the four supports has d distinct qubits
SupportsHaveD ==
    \A b \in Bases : \A k \in 1 .. 2 :
        /\ Len(LogicalsOf(logicals, b)[k]) = d
        /\ Cardinality(Elements(LogicalsOf(logicals, b)[k])) = d

\* the two supports of one basis share no qubit
SupportsDisjoint ==
    \A b \in Bases :
        Elements(LogicalsOf(logicals, b)[1]) \cap Elements(LogicalsOf(logicals, b)[2]) = {}

\* every Z plaquette against the X columns, every X plaquette against the Z rows
EvenOverlaps ==
    /\ \A p \in 1 .. Len(zplaqs) : \A k \in 1 .. 2 : Overlap(zplaqs[p], logicals.x[k]) % 2 = 0
    /\ \A p \in 1 .. Len(xplaqs) : \A k \in 1 .. 2 : Overlap(xplaqs[p], logicals.z[k]) % 2 = 0

(* C3, as claimed: for every d >= 1 each logical support has d qubits, the  *)
(* two supports of a basis are disjoint, and every plaquette of the other   *)
(* basis shares an even number of qubits with each support.                 *)
C3_Original ==
    pc = "built" => SupportsHaveD /\ SupportsDisjoint /\ EvenOverlaps

(* C3, as amended: each support has d qubits for every d >= 1; the two      *)
(* supports of a basis are disjoint for d >= 2; the overlaps are even for   *)
(* odd d.                                                                   *)
C3_LogicalSupports ==
    pc = "built" =>
        /\ SupportsHaveD
        /\ d >= 2 => SupportsDisjoint
        /\ d % 2 = 1 => EvenOverlaps

C3_Witness ==
    /\ pc = "built"
    /\ d % 2 = 1
    /\ d >= 3
    /\ \E p \in 1 .. Len(zplaqs) : Overlap(zplaqs[p], logicals.x[1]) = 2
    /\ \E p \in 1 .. Len(xplaqs) : Overlap(xplaqs[p], logicals.z[2]) = 2

\* the shot is a noiseless shot with one bit of an ancilla field flipped
AncillaFlip == origin.kind = "noiseless" /\ origin.flip # <<>> /\ origin.flip[1] >= 1

(* C4, as claimed: one bit flipped in any ancilla field of a noiseless shot *)
(* gives exactly one or exactly two bulk nodes.                             *)
C4_Original ==
    (pc = "nodes" /\ AncillaFlip) => BulkCount \in {1, 2}

(* C4, as amended: one bit flipped in an ancilla field of the preparation   *)
(* basis gives exactly one or exactly two bulk nodes; one bit flipped in an *)
(* ancilla field of the other basis gives none.                             *)
C4_SingleFlip ==
    (pc = "nodes" /\ AncillaFlip) =>
        IF IsOwnField(Self, origin.flip[1]) THEN BulkCount \in {1, 2} ELSE BulkCount = 0

C4_Witness ==
    /\ pc = "nodes"
    /\ AncillaFlip
    /\ IsOwnField(Self, origin.flip[1])
    /\ ~resets
    /\ T >= 3
    /\ origin.flip[1] \in {3, 4}
    /\ BulkCount = 2

\* the number of round-strings of the detection record
RoundCount == Len(Split(syndrome_changes, <<" ">>))

\* the basis of the stabilizers inspected as the specification has it (the
\* basis opposite the preparation basis); the code inspects PlaqsOf
SpecInspectedBasis == IF basis = "z" THEN "x" ELSE "z"

OwnFieldIndex(self, r) == 1 + 2 * (self.T - 1 - r) + (IF self.basis = "x" THEN 0 ELSE 1)

\* the ancilla register of the preparation basis
OwnQubits(self) == IF self.basis = "x" THEN "xplaq_qubit" ELSE "zplaq_qubit"

\* the character of the shot string that holds the bit which the circuit
\* of "0" measures ancilla p of the preparation basis into in round r
MeasuredChar(self, circ, str, r, p) ==
    LET i == CHOOSE i \in 1 .. Len(circ) :
                /\ circ[i].op = "measure"
                /\ circ[i].q[1] = Qubit(OwnQubits(self), p)
                /\ circ[i].c[1].reg.round = r
        field == Split(str, <<" ">>)[OwnFieldIndex(self, r) + 1]
    IN  field[Len(field) - circ[i].c[1].idx]

\* the bulk nodes the detection record asks for
ExpectedBulk(self, record) ==
    { [time |-> t, qubits |-> Present(PlaqsOf(self)[p + 1]),
       is_boundary |-> FALSE, element |-> p] :
        << t, p >> \in { tp \in (0 .. (Len(record) - 1)) \X (0 .. (Len(PlaqsOf(self)) - 1)) :
                            record[tp[1] + 1][Len(record[tp[1] + 1]) - tp[2]] = "1" } }

(* C6: the bulk nodes are, one for one, the pairs (round t, stabilizer p)   *)
(* whose detection bit is 1, with time t, element p and the present qubits  *)
(* of plaquette p of the preparation basis; p is the index of the ancilla   *)
(* in the circuit; no two nodes share (time, is_boundary, element).         *)
C6_BulkNodes ==
    pc = "nodes" =>
        LET record == Split(string2changes(Self, string), <<" ">>)
            bulk == SelectSeq(nodes, IsBulk)
        IN  /\ Elements(bulk) = ExpectedBulk(Self, record)
            /\ Len(bulk) = Cardinality(ExpectedBulk(Self, record))
            /\ Cardinality({ << nodes[k].time, nodes[k].is_boundary, nodes[k].element >> :
                                k \in 1 .. Len(nodes) }) = Len(nodes)
            /\ \A p \in 0 .. (num_xy(d) - 1) :
                  (\E k \in 1 .. Len(bulk) : bulk[k].time = 0 /\ bulk[k].element = p)
                      <=> MeasuredChar(Self, circuit["0"], string, 0, p) = "1"

C6_Witness ==
    /\ pc = "nodes"
    /\ origin.kind = "noisy"
    /\ T >= 2
    /\ BulkCount >= 3
    /\ \E k \in 1 .. Len(nodes) : IsBulk(nodes[k]) /\ nodes[k].time = 0 /\ nodes[k].element = 1
    /\ \E k \in 1 .. Len(nodes) : IsBulk(nodes[k]) /\ nodes[k].time = T /\ nodes[k].element = 3

\* the parity of the readout over a logical support
SupportParity(str, support) ==
    Sum([k \in 1 .. Len(support) |-> IntOf(FinalReadout(str)[support[k] + 1])]) % 2

(* C7: for each of the two logical supports of the preparation basis a      *)
(* boundary node with that support's qubits is returned iff all_logicals or *)
(* the raw logical value of that support differs from logical; there is at  *)
(* most one per support, with time 0 and element in {0, 1}.                 *)
C7_BoundaryNodes ==
    pc = "nodes" =>
        LET raw == string2raw_logicals(Self, string)
            supports == LogicalsOf(logicals, basis)
            bnodes == SelectSeq(nodes, IsBoundaryNode)
        IN  /\ \A k \in 1 .. 2 :
                  /\ raw[2 * k - 1] = StrOf(SupportParity(string, supports[k]))
                  /\ (\E n \in 1 .. Len(bnodes) : bnodes[n].qubits = supports[k])
                        <=> (all_logicals \/ raw[2 * k - 1] # logical)
                  /\ Cardinality({n \in 1 .. Len(bnodes) : bnodes[n].qubits = supports[k]}) <= 1
            /\ \A n \in 1 .. Len(bnodes) :
                  /\ bnodes[n].time = 0
                  /\ bnodes[n].element \in {0, 1}
                  /\ bnodes[n].qubits \in {supports[1], supports[2]}

C7_Witness ==
    /\ pc = "nodes"
    /\ ~all_logicals
    /\ Len(SelectSeq(nodes, IsBoundaryNode)) = 1
    /\ string2raw_logicals(Self, string) = << "1", " ", "0" >>
    /\ logical = "0"

\* the positions of circ that hold an instruction of name op
OpsAt(circ, op) == {i \in 1 .. Len(circ) : circ[i].op = op}

\* the round position i of circ belongs to: rounds open with the
\* add_register of their zplaq_bit register; -1 before the first round
RoundOf(circ, i) ==
    Cardinality({k \in 1 .. i : /\ circ[k].op = "add_register"
                                /\ circ[k].c[1].reg.kind = "zplaq_bit"}) - 1

\* the ancilla qubits of the circuit
Ancillas == {Qubit(reg, j) : reg \in {"xplaq_qubit", "zplaq_qubit"}, j \in Range(num_xy(d))}

\* the registers the circuit was given, in the order of the add_register calls
RegistersAdded(circ) ==
    LET adds == SelectSeq(circ, LAMBDA ins : ins.op = "add_register")
    IN  [k \in 1 .. Len(adds) |-> adds[k].c[1].reg]

\* the registers of n rounds in order, then code_bit
RegistersOfRounds(n) ==
    Concat([k \in 1 .. n |-> << ClassicalRegister(num_xy(d), k - 1, "zplaq_bit"),
                                ClassicalRegister(num_xy(d), k - 1, "xplaq_bit") >>])
        \o << code_bit(d) >>

\* circ holds exactly blocks rounds in order, every ancilla measured once in
\* each round into that round's register
RoundsInOrder(circ) ==
    /\ RegistersAdded(circ) = RegistersOfRounds(blocks)
    /\ \A i \in OpsAt(circ, "measure") :
          circ[i].q[1].reg # "code_qubit" =>
              /\ circ[i].q[1] \in Ancillas
              /\ circ[i].c[1].reg.round = RoundOf(circ, i)
              /\ circ[i].c[1].idx = circ[i].q[1].idx
    /\ \A r \in Range(blocks) : \A a \in Ancillas :
          Cardinality({i \in OpsAt(circ, "measure") :
                          circ[i].q[1] = a /\ RoundOf(circ, i) = r}) = 1

\* one readout of the code qubits, after everything else
OneReadoutLast(circ) ==
    /\ circ[Len(circ)] = Measure(Qubit("code_qubit", WholeRegister),
                                 Clbit(code_bit(d), WholeRegister))
    /\ \A i \in OpsAt(circ, "measure") : circ[i].q[1].reg = "code_qubit" => i = Len(circ)

\* an ancilla is reset in round r iff resets and r is not the last round,
\* once, and after its measurement of that round
ResetsByRound(circ) ==
    /\ \A i \in OpsAt(circ, "reset") : circ[i].q[1] \in Ancillas
    /\ \A r \in Range(blocks) : \A a \in Ancillas :
          LET rs == {i \in OpsAt(circ, "reset") : circ[i].q[1] = a /\ RoundOf(circ, i) = r}
          IN  /\ Cardinality(rs) = (IF resets /\ r # blocks - 1 THEN 1 ELSE 0)
              /\ \A i \in rs : \E m \in OpsAt(circ, "measure") :
                    m < i /\ circ[m].q[1] = a /\ RoundOf(circ, m) = r

(* C8: the constructor emits no measurement when T = 0; when T >= 1 it      *)
(* emits T syndrome rounds in the order 0 .. T - 1, then one readout of the *)
(* code qubits, and an ancilla is reset after its measurement in a round    *)
(* iff resets is true and the round is not round T - 1.                     *)
C8_ConstructionOrder ==
    pc = "constructed" =>
        \A log \in {"0", "1"} :
            /\ blocks = 0 => /\ OpsAt(circuit[log], "measure") = {}
                             /\ OpsAt(circuit[log], "add_register") = {}
            /\ blocks >= 1 => /\ RoundsInOrder(circuit[log])
                              /\ OneReadoutLast(circuit[log])
                              /\ ResetsByRound(circuit[log])

C8_Witness ==
    /\ pc = "constructed"
    /\ blocks >= 3
    /\ resets
    /\ d = 3
    /\ Cardinality(OpsAt(circuit["1"], "reset")) = 2 * num_xy(d) * (blocks - 1)
    /\ Cardinality(OpsAt(circuit["1"], "measure")) = 2 * num_xy(d) * blocks + 1

\* T counts the calls, the registries hold one register per call, and the
\* register of call k is named for round k - 1
Registry ==
    /\ T = Len(calls)
    /\ Len(xplaq_bits) = T
    /\ Len(zplaq_bits) = T
    /\ \A k \in 1 .. T :
          /\ calls[k].T = k - 1
          /\ xplaq_bits[k] = ClassicalRegister(num_xy(d), k - 1, "xplaq_bit")
          /\ zplaq_bits[k] = ClassicalRegister(num_xy(d), k - 1, "zplaq_bit")

\* what a step that makes a syndrome_measurement call does to the registries
\* and to T
CallStep ==
    Len(calls') # Len(calls) =>
        /\ Len(calls') = Len(calls) + 1
        /\ calls'[Len(calls')].T = T
        /\ T' = T + 1
        /\ xplaq_bits' = Append(xplaq_bits, ClassicalRegister(num_xy(d), T, "xplaq_bit"))
        /\ zplaq_bits' = Append(zplaq_bits, ClassicalRegister(num_xy(d), T, "zplaq_bit"))
        /\ \A log \in {"0", "1"} :
              /\ SubSeq(circuit'[log], 1, Len(circuit[log])) = circuit[log]
              /\ \A i \in (Len(circuit[log]) + 1) .. Len(circuit'[log]) :
                    circuit'[log][i].op = "measure" =>
                        circuit'[log][i].c[1].reg =
                            (IF circuit'[log][i].q[1].reg = "xplaq_qubit"
                             THEN xplaq_bits'[T + 1] ELSE zplaq_bits'[T + 1])
              /\ Cardinality({i \in (Len(circuit[log]) + 1) .. Len(circuit'[log]) :
                                circuit'[log][i].op = "measure"}) = 2 * num_xy(d)

(* C9: at every point self.T is the number of syndrome_measurement calls    *)
(* made so far and both registries hold self.T registers; each call appends *)
(* one X and one Z register named for the value of T on entry, measures     *)
(* that round into exactly those two registers, adds one to T and leaves    *)
(* the earlier entries as they were.                                        *)
C9_RoundRegistry == [](Registry) /\ [][CallStep]_vars

C9_Witness ==
    /\ pc = "in_use"
    /\ d = 3
    /\ T > blocks + 1
    /\ blocks >= 1
    /\ calls[T].final
    /\ ~calls[T - 1].final

\* the XOR of two fields of equal length
XorField(a, b) == [k \in 1 .. Len(a) |-> IF a[k] = b[k] THEN "0" ELSE "1"]

\* the shot string with the field of every round r >= 1 of the preparation
\* basis replaced by its XOR with the field of round r - 1
Differenced(self, str) ==
    LET fields == Split(str, <<" ">>)
        own == {OwnFieldIndex(self, r) + 1 : r \in 1 .. (self.T - 1)}
    IN  Join(<<" ">>,
             [f \in 1 .. Len(fields) |->
                 IF f \in own THEN XorField(fields[f], fields[f + 2]) ELSE fields[f]])

(* C10: the detection record _string2changes computes with resets = False   *)
(* from the fields m_0 .. m_(T-1) is the record it computes with resets =   *)
(* True from s_0 = m_0, s_t = m_t XOR m_(t-1) and the same final readout.   *)
C10_RegimeEquivalence ==
    (pc = "changes" /\ ~resets) =>
        syndrome_changes = string2changes([Self EXCEPT !.resets = TRUE],
                                          Differenced(Self, string))

C10_Witness ==
    /\ pc = "changes"
    /\ ~resets
    /\ T >= 3
    /\ origin.kind = "noisy"
    /\ Differenced(Self, string) # string
    /\ Cardinality({k \in 1 .. Len(syndrome_changes) : syndrome_changes[k] = "1"}) >= 3

====
